---- MODULE Spec2Model ----
(***************************************************************************)
(* Model of the vd-orchestrator request handlers: the sentence chunker     *)
(* (chunkText, three textual variants), the JSON salvage (safeParseJson),  *)
(* the resolution of a request's input (upload, compression, query) and    *)
(* the creator -> reviewer pipeline of the handler variants.               *)
(*                                                                         *)
(* Strings are sequences of glyphs.  A glyph is one character, except the  *)
(* two block glyphs "A" (BlockLen letters) and "W" (BlockLen blanks), which *)
(* stand for a run of BlockLen equal characters, so that documents longer  *)
(* than the handlers' 10,000 / 25,000 character thresholds are short       *)
(* sequences.  StrLen is the JavaScript .length of the string.             *)
(***************************************************************************)
EXTENDS Integers, Sequences, FiniteSets, TLC

\* ------------------------------------------------------------------ bounds
MaxLen == 5          \* longest text (in glyphs) given to chunkText in SpecChunk
MaxMax == 6          \* largest `max` given to chunkText in SpecChunk
BlockLen == 5000     \* characters a block glyph stands for
MaxJsonLen == 4       \* longest free text (in glyphs) given to safeParseJson
MaxItems == 2         \* most elements of an array given to safeParseJson
MaxSentences == 3    \* most sentences of a request's document

\* ------------------------------------------------------------------ strings
IsWs(c) == c \in {" ", "\n", "W"}
IsTerm(c) == c \in {".", "!", "?"}
Weight(c) == IF c \in {"A", "W"} THEN BlockLen ELSE 1

RECURSIVE StrLen(_)
StrLen(s) == IF s = <<>> THEN 0 ELSE Weight(Head(s)) + StrLen(Tail(s))

RECURSIVE TrimStart(_)
TrimStart(s) ==
  IF s = <<>> THEN <<>>
  ELSE IF IsWs(Head(s)) THEN TrimStart(Tail(s)) ELSE s

RECURSIVE TrimEnd(_)
TrimEnd(s) ==
  IF s = <<>> THEN <<>>
  ELSE IF IsWs(s[Len(s)]) THEN TrimEnd(SubSeq(s, 1, Len(s) - 1)) ELSE s

\* String.prototype.trim
Trim(s) == TrimEnd(TrimStart(s))

\* index of the last glyph of the whitespace run that starts at i
RECURSIVE WsRunEnd(_, _)
WsRunEnd(t, i) ==
  IF i < Len(t) /\ IsWs(t[i + 1]) THEN WsRunEnd(t, i + 1) ELSE i

\* a match of /(?<=[.!?])\s+/ starts at i
SepStartsAt(t, i) == i > 1 /\ IsWs(t[i]) /\ IsTerm(t[i - 1])

\* text.split(/(?<=[.!?])\s+/): the pieces between the matches, the empty
\* piece after a trailing match included
RECURSIVE SplitFrom(_, _, _, _)
SplitFrom(t, i, piece, acc) ==
  IF i > Len(t) THEN Append(acc, piece)
  ELSE IF SepStartsAt(t, i)
       THEN SplitFrom(t, WsRunEnd(t, i) + 1, <<>>, Append(acc, piece))
       ELSE SplitFrom(t, i + 1, Append(piece, t[i]), acc)

SplitSentences(t) == SplitFrom(t, 1, <<>>, <<>>)

\* ------------------------------------------------------------------ chunkText
\* The three textual variants of chunkText in the repository.
\*   "raw"   pushes the accumulator as it is        (orchestrator.js:9)
\*   "guard" returns [] for a falsy text first       (orchestrator.js:166)
\*   "trim"  pushes the trimmed accumulator if it is not blank (all others)
Variants == {"raw", "guard", "trim"}

\* if ((current + s).length > max)
OverflowsCurrentOnly(current, s, max) == StrLen(current) > max
OverflowsAlways(current, s, max) == TRUE
Overflows(current, s, max) == StrLen(current \o s) > max

\* the push inside the loop, when the accumulator overflows
FlushKeep(v, current, chunks) == chunks
Flush(v, current, chunks) ==
  IF v = "raw" THEN Append(chunks, current)
  ELSE IF Trim(current) # <<>> THEN Append(chunks, Trim(current)) ELSE chunks

\* the push after the loop
FinalPush(v, current, chunks) ==
  IF Trim(current) # <<>>
  THEN Append(chunks, IF v = "raw" THEN current ELSE Trim(current))
  ELSE chunks

\* current += s + " "
AccumulateNoSpace(current, s) == current \o s
Accumulate(current, s) == current \o s \o <<" ">>

\* for (const s of sentences) { ... }
RECURSIVE ChunkLoop(_, _, _, _, _, _)
ChunkLoop(v, sentences, k, current, chunks, max) ==
  IF k > Len(sentences) THEN FinalPush(v, current, chunks)
  ELSE LET s == sentences[k] IN
       IF Overflows(current, s, max)
       THEN ChunkLoop(v, sentences, k + 1, Accumulate(<<>>, s),
                      Flush(v, current, chunks), max)
       ELSE ChunkLoop(v, sentences, k + 1, Accumulate(current, s), chunks, max)

chunkText(v, text, max) ==
  IF v = "guard" /\ text = <<>> THEN <<>>
  ELSE ChunkLoop(v, SplitSentences(text), 1, <<>>, <<>>, max)

\* ------------------------------------------------------------------ safeParseJson
\* An LLM answer is a glyph string too: "{" "}" "[" "]" "," ":" are the JSON
\* punctuation, "s" is a string literal, "p" the string literal "procedures",
\* "1" a number, "n" the literal null, "w" a word of prose (no JSON value),
\* " " and "\n" whitespace.
JsNull == [t |-> "null"]
ParseFail == [ok |-> FALSE, val |-> JsNull, pos |-> 0]
ParseOk(v, next) == [ok |-> TRUE, val |-> v, pos |-> next]

RECURSIVE SkipWs(_, _)
SkipWs(t, i) == IF i <= Len(t) /\ IsWs(t[i]) THEN SkipWs(t, i + 1) ELSE i

TokenAt(t, i) == IF i <= Len(t) THEN t[i] ELSE "eof"

\* the JSON grammar of JSON.parse: value, elements of an array, members of an
\* object; i is the position to read from
RECURSIVE ParseValue(_, _), ParseElements(_, _, _), ParseMembers(_, _, _, _)
ParseValue(t, i) ==
  LET j == SkipWs(t, i)
      c == TokenAt(t, j)
  IN  CASE c \in {"s", "p"} -> ParseOk([t |-> "str"], j + 1)
        [] c = "1" -> ParseOk([t |-> "num"], j + 1)
        [] c = "n" -> ParseOk(JsNull, j + 1)
        [] c = "[" ->
             IF TokenAt(t, SkipWs(t, j + 1)) = "]"
             THEN ParseOk([t |-> "arr", items |-> <<>>], SkipWs(t, j + 1) + 1)
             ELSE ParseElements(t, j + 1, <<>>)
        [] c = "{" ->
             IF TokenAt(t, SkipWs(t, j + 1)) = "}"
             THEN ParseOk([t |-> "obj", keys |-> <<>>, vals |-> <<>>],
                          SkipWs(t, j + 1) + 1)
             ELSE ParseMembers(t, j + 1, <<>>, <<>>)
        [] OTHER -> ParseFail

ParseElements(t, i, items) ==
  LET r == ParseValue(t, i) IN
  IF ~r.ok THEN ParseFail
  ELSE LET j == SkipWs(t, r.pos)
           c == TokenAt(t, j)
       IN  IF c = "," THEN ParseElements(t, j + 1, Append(items, r.val))
           ELSE IF c = "]"
                THEN ParseOk([t |-> "arr", items |-> Append(items, r.val)], j + 1)
                ELSE ParseFail

ParseMembers(t, i, keys, vals) ==
  LET k == SkipWs(t, i)
      colon == SkipWs(t, k + 1)
  IN  IF TokenAt(t, k) \notin {"s", "p"} \/ TokenAt(t, colon) # ":" THEN ParseFail
      ELSE LET r == ParseValue(t, colon + 1) IN
           IF ~r.ok THEN ParseFail
           ELSE LET j == SkipWs(t, r.pos)
                    c == TokenAt(t, j)
                IN  IF c = ","
                    THEN ParseMembers(t, j + 1, Append(keys, t[k]),
                                      Append(vals, r.val))
                    ELSE IF c = "}"
                         THEN ParseOk([t |-> "obj", keys |-> Append(keys, t[k]),
                                       vals |-> Append(vals, r.val)], j + 1)
                         ELSE ParseFail

\* JSON.parse: one value and nothing but whitespace after it; ok = FALSE is
\* the SyntaxError
JSONparse(t) ==
  LET r == ParseValue(t, 1) IN
  IF r.ok /\ SkipWs(t, r.pos) > Len(t) THEN r ELSE ParseFail

Positions(t, c) == {i \in 1..Len(t) : t[i] = c}
MinIn(S) == CHOOSE x \in S : \A y \in S : x <= y
MaxIn(S) == CHOOSE x \in S : \A y \in S : x >= y

\* maybeJson.match(/(\{[\s\S]*\})/) and .match(/(\[[\s\S]*\])/): from the first
\* opening bracket to the last closing one after it; <<>> when there is no match
GreedyMatch(t, open, close) ==
  IF Positions(t, open) = {} THEN <<>>
  ELSE LET first == MinIn(Positions(t, open))
           after == {i \in Positions(t, close) : i > first}
       IN  IF after = {} THEN <<>> ELSE SubSeq(t, first, MaxIn(after))

\* candidate.replace(/,\s*}/g, '}').replace(/,\s*]/g, ']')
RECURSIVE DropCommaBefore(_, _, _)
DropCommaBefore(t, i, close) ==
  IF i > Len(t) THEN <<>>
  ELSE IF t[i] = "," /\ TokenAt(t, SkipWs(t, i + 1)) = close
       THEN <<close>> \o DropCommaBefore(t, SkipWs(t, i + 1) + 1, close)
       ELSE <<t[i]>> \o DropCommaBefore(t, i + 1, close)

FixTrailingCommas(t) == DropCommaBefore(DropCommaBefore(t, 1, "}"), 1, "]")

\* the value safeParseJson returns; JsNull is JavaScript's null
safeParseJson(maybeJson) ==
  IF maybeJson = <<>> THEN JsNull
  ELSE IF JSONparse(maybeJson).ok THEN JSONparse(maybeJson).val
  ELSE LET objMatch == GreedyMatch(maybeJson, "{", "}")
           arrMatch == GreedyMatch(maybeJson, "[", "]")
           candidate == IF objMatch # <<>> THEN objMatch ELSE arrMatch
       IN  IF candidate = <<>> THEN JsNull
           ELSE IF JSONparse(candidate).ok THEN JSONparse(candidate).val
           ELSE IF JSONparse(FixTrailingCommas(candidate)).ok
                THEN JSONparse(FixTrailingCommas(candidate)).val
                ELSE JsNull

\* !value for the values JSON.parse gives here (strings and numbers of the
\* answers are non-empty / non-zero)
Falsy(v) == v.t = "null"

\* ------------------------------------------------------------------ state
\* chunkText called on its own (SpecChunk)
VARIABLES ctext, cmax, cvariant, cresult, cpc

\* safeParseJson called on its own (SpecJson): the argument is
\* jin.pre \o jin.dirty \o jin.post
VARIABLES jin, jresult, jpc

\* the input of one POST request being resolved (SpecResolve): body fields,
\* uploaded file and query parameters become the document and the criteria
VARIABLES
  rh,         \* the handler variant that resolves the input
  rin,        \* the request: body fields, uploaded file, query parameters
  rtext,      \* let document_text / merged_text
  rsrc,       \* let source_wp (orchC, p001a)
  rfile,      \* what the extractor did: "unused", "text", "empty", "failed"
  rpc,        \* where the resolution stands
  rstatus     \* 0 while resolving, 400 / 500 when refused, 200 when the
              \* input goes on to the pipeline

\* one request handled by one handler variant (Spec)
VARIABLES
  h,          \* the handler variant that serves the request
  req,        \* the request: method and the body's fields
  env,        \* process.env: the state of the two API keys
  pc,         \* where the handler stands: the await it is suspended at
  doc,        \* the resolved document text
  chunks,     \* const chunks
  usedChunker,\* whether chunks came from chunkText
  i,          \* the loop index: chunks already processed
  processed,  \* processedChunks / gptDraftPieces
  merged,     \* the joined creator output
  calls,      \* the external LLM calls made so far, in order
  resp        \* the HTTP response sent (status 0: none yet)

cvars == <<ctext, cmax, cvariant, cresult, cpc>>
pvars == <<h, req, env, pc, doc, chunks, usedChunker, i, processed, merged,
           calls, resp>>
jvars == <<jin, jresult, jpc>>
rvars == <<rh, rin, rtext, rsrc, rfile, rpc, rstatus>>
vars == <<cvars, jvars, rvars, pvars>>

\* ------------------------------------------------------------------ handlers
\* The handler variants of the repository:
\*   orchA  src/api/orchestrator.js:75      orchB  src/api/orchestrator.js:325
\*   orchC  src/api/orchestrator.js:591     sop    src/api/sop-reviewer.js:76
\*   p000   src/unnamed/part_000:73         p001a  src/unnamed/part_001:242
\*   p001b  src/unnamed/part_001:536        p002   src/unnamed/part_002:68
\*   p003   src/unnamed/part_003:187        p004   src/unnamed/part_004:88
\*   p005   src/unnamed/part_005:88
Handlers == {"orchA", "orchB", "orchC", "sop", "p000", "p001a", "p001b",
             "p002", "p003", "p004", "p005"}

\* chunk a document, run GPT per chunk, GPT main generation, Claude review
ThreeStage == {"orchA", "orchC", "p001a", "p001b", "p003"}
\* Claude per chunk, then one GPT review
TwoStage == {"sop", "p000", "p004", "p005"}

ChunkThreshold == 10000
LargeThreshold == 25000
DefaultMax == 6000
ChunkMax == 8000
LargeMax == 12000
MinDocLength == 10

\* doc.length > 10000 ? ... (25000 in orchB)
FlatThreshold(x) == ChunkThreshold
Threshold(x) == IF x = "orchB" THEN LargeThreshold ELSE ChunkThreshold

\* the max handed to chunkText (orchA relies on the default of its chunkText)
ChunkMaxOf(x) ==
  IF x = "orchA" THEN DefaultMax ELSE IF x = "orchB" THEN LargeMax ELSE ChunkMax

\* the chunkText that the handler's file defines
VariantOf(x) ==
  IF x = "orchA" THEN "raw" ELSE IF x = "orchB" THEN "guard" ELSE "trim"

\* const chunks = doc.length > 10000 ? chunkText(doc, 8000) : [doc]
NeedsChunkingAtLeast(x, text) == StrLen(text) >= Threshold(x)
NeedsChunking(x, text) == StrLen(text) > Threshold(x)
MakeChunks(x, text) ==
  IF NeedsChunking(x, text) THEN chunkText(VariantOf(x), text, ChunkMaxOf(x))
  ELSE <<text>>

\* the model that processes the chunks, and the model of the last stage
CreatorModel(x) == IF x \in ThreeStage \cup {"orchB"} THEN "gpt" ELSE "claude"
ReviewerModel(x) == IF x \in ThreeStage \cup {"orchB"} THEN "claude" ELSE "gpt"

\* processedChunks.join(...): "=" stands for the rule of box characters
Separator(x) ==
  IF x \in {"orchA", "orchB", "p000", "p002"} THEN <<"\n", "\n">>
  ELSE IF x \in {"sop", "p005"} THEN <<"\n", "\n", "=", "\n", "\n">>
  ELSE <<"\n", "\n", "-", "-", "-", "\n", "\n">>

RECURSIVE JoinWith(_, _)
JoinWith(parts, sep) ==
  IF parts = <<>> THEN <<>>
  ELSE IF Len(parts) = 1 THEN parts[1]
  ELSE parts[1] \o sep \o JoinWith(Tail(parts), sep)

\* if (i < chunks.length - 1) await new Promise(r => setTimeout(r, 500))
\* (the for-of loop of orchA has no pause)
HasDelay(x) == x # "orchA"

\* if (doc && doc.length > 0) { for ... } around the chunk loop
LoopGuarded(x) == x \in {"orchC", "p001a"}

\* ------------------------------------------------------------------ request
Methods == {"POST", "GET", "OPTIONS", "PUT"}

\* req.body: the parsed object, or null / undefined when no body was sent
BodyShapes == {"object", "null", "undefined"}

\* reading the fields of an absent body throws a TypeError inside the try:
\*   const { source_wp, merged_text } = req.body           (orchA, p001b)
\*   typeof req.body === "object" -> req.body.document_text (p000, null)
\*   typeof body === 'object' -> body.document_text         (orchB, null)
\* the other handlers test the body first (req.body && ..., req.body?.x,
\* req.body || {}) or read it themselves (parseRequestBody)
BodyCrashes(x, b) ==
  IF x \in {"orchA", "p001b"} THEN b # "object"
  ELSE IF x \in {"p000", "orchB"} THEN b = "null"
  ELSE FALSE

\* the sentences that documents are made of: a short one, one of a block, and
\* one of two blocks that is longer than ChunkMax
SentenceShapes == {<<"a", ".">>, <<"A", ".">>, <<"A", "A", ".">>}

\* no document, a blank one of three blocks, one of exactly two blocks, and
\* the documents of up to MaxSentences sentences
DocsOf(most) ==
  {<<>>, <<"W", "W", "W">>, <<"A", "A">>} \cup
  {JoinWith(ss, <<" ">>) :
     ss \in UNION {[1..n -> SentenceShapes] : n \in 1..most}}

Docs == DocsOf(MaxSentences)

\* user_inputs / source_wp: absent or empty, blank, present
Criteria == {<<>>, <<" ">>, <<"a">>}

\* OPENAI_API_KEY and ANTHROPIC_API_KEY: "ok", "missing", "badprefix"
Envs == {[openai |-> "ok", anthropic |-> "ok"],
         [openai |-> "missing", anthropic |-> "ok"],
         [openai |-> "ok", anthropic |-> "badprefix"]}

\* the answers a model gives: prose, a JSON object, the JSON literal null
Replies == {<<"w">>, <<"{", "s", ":", "[", "]", "}">>, <<"n">>}

\* the answers to a call whose answer the handler parses (the reviewer and the
\* retry of orchB, the extraction of p002): also two lines of prose, an array
\* of two entries, an object with a procedures array
StructuredReplies ==
  Replies \cup {<<"w", "\n", "w">>, <<"[", "s", ",", "s", "]">>,
                <<"{", "p", ":", "[", "s", "]", "}">>}

\* the drafts of the creator stages are passed on as text: prose or JSON
DraftReplies == {<<"w">>, <<"{", "s", ":", "[", "]", "}">>}

RepliesTo(x, stage) ==
  IF (x = "orchB" /\ stage \in {"reviewer", "retry"}) \/ stage = "extract"
  THEN StructuredReplies
  ELSE IF stage \in {"creator", "main"} THEN DraftReplies
  ELSE Replies

\* procedures_for_arg of a response: NoList when the body has no such field
NoList == [t |-> "absent"]
EmptyArr == [t |-> "arr", items |-> <<>>]

\* final: where the final output of a 200 comes from ("reviewer", "retry",
\* "fallback" built from the creator draft, "creator" in p002); list: the
\* value of procedures_for_arg
NoResponse ==
  [status |-> 0, kind |-> "none", error |-> FALSE, count |-> 0,
   final |-> "none", list |-> NoList]
Response(status, kind, err, n) ==
  [status |-> status, kind |-> kind, error |-> err, count |-> n,
   final |-> "none", list |-> NoList]

\* res.status(4xx or 500).json({ error: '...' }): a refusal with a fixed text
Refused(status) == Response(status, "error", TRUE, 0)

\* what a catch-all finds in `err`: every throw of the handlers and adapters
\* is of an Error (a TypeError of the runtime, an axios rejection, or
\* `new Error(...)` of the adapter), whose message is a string
Undefined == "undefined"
Thrown(why) == [name |-> "Error", message |-> why]

\* the value the catch-all puts in the error field of its body:
\*   error: err.message                 (sop, p000, p002, p004, p005)
\*   error: err.message || String(err)  (orchB)
\*   error: "Internal error" and the like, err.message under details (others)
ErrorField(x, err) ==
  IF x \in {"sop", "p000", "p002", "p004", "p005"} THEN err.message
  ELSE IF x = "orchB"
       THEN IF err.message \notin {Undefined, ""} THEN err.message ELSE err.name
  ELSE "Internal error"

\* catch (err) { return res.status(500).json({ error: ..., ... }) }; JSON
\* drops a field whose value is undefined
CaughtDetailsOnly(x, err) == Response(500, "error", FALSE, 0)
Caught(x, err) == Response(500, "error", ErrorField(x, err) # Undefined, 0)

\* the body field that carries the document, and the one with the criteria:
\*   merged_text / source_wp    (orchA, orchC, p001a, p001b, p003)
\*   document_text / user_inputs (orchB, sop, p000, p004, p005)
\*   uploaded_wp / user_inputs   (p002)
\* !source_wp || source_wp.trim() === ''   (orchC, p001a)
\* !source_wp                               (orchA, p001b, p003)
\* !document_text || trim().length < 10     (orchB)
\* !user_inputs || !document_text           (sop, p000, p004, p005)
\* !uploaded_wp && !user_inputs             (p002)
Invalid(x, r) ==
  IF x \in {"orchC", "p001a"} THEN r.crit = <<>> \/ Trim(r.crit) = <<>>
  ELSE IF x \in {"orchA", "p001b", "p003"} THEN r.crit = <<>>
  ELSE IF x = "orchB" THEN r.doc = <<>> \/ StrLen(Trim(r.doc)) < MinDocLength
  ELSE IF x = "p002" THEN r.doc = <<>> /\ r.crit = <<>>
  ELSE r.crit = <<>> \/ r.doc = <<>>

\* the key checks before the pipeline starts
\*   !KEY || !KEY.startsWith(...)   (orchC, p001a)
\*   !OPENAI_KEY || !ANTHROPIC_KEY  (p001b, p003)
KeysRejected(x, e) ==
  IF x \in {"orchC", "p001a"} THEN e.openai # "ok" \/ e.anthropic # "ok"
  ELSE IF x \in {"p001b", "p003"} THEN e.openai = "missing" \/ e.anthropic = "missing"
  ELSE FALSE

\* let sourceText = uploaded_wp ? uploaded_wp : user_inputs   (p002)
ResolvedDoc(x, r) == IF x = "p002" /\ r.doc = <<>> THEN r.crit ELSE r.doc

\* what the handler answers before any processing, "go" if it goes on
MethodGate(x, m) ==
  IF x = "orchA" THEN "go"
  ELSE IF m = "OPTIONS" THEN "preflight"
  ELSE IF m = "GET" /\ x \in {"orchC", "p001a", "p003"} THEN "health"
  ELSE IF m # "POST" THEN "notallowed"
  ELSE "go"

\* ------------------------------------------------------------------ LLM calls
KeyOf(model, e) == IF model = "gpt" THEN e.openai ELSE e.anthropic

\* how a call can end: a generated text ("ok"), an HTTP or network error
\* ("error"), a 2xx answer without the choices / content array ("malformed"),
\* a 2xx answer whose first choice or content block lacks message.content /
\* text ("noleaf"); a provider refuses a missing or malformed key
Outcomes(model, e) ==
  IF KeyOf(model, e) = "ok" THEN {"ok", "error", "malformed", "noleaf"}
  ELSE {"error"}

\* the adapters that throw when the last field of the envelope is missing:
\*   console.log(..., data.content[0].text.length)      (sop, p000, p004, p005)
\*   if (!data.choices[0].message.content) throw ...    (p001a, both adapters)
\*   if (... || !data.content[0].text) throw ...        (orchC, callClaude only)
\* the others return data.choices[0].message.content as it is: undefined
ChecksLeaf(x, model) ==
  \/ x \in {"sop", "p000", "p004", "p005", "p001a"}
  \/ x = "orchC" /\ model = "claude"

\* callGPT / callClaude: TRUE when the adapter throws.  Only the adapters of
\* orchB read the envelope with ?. and ?? '' and return '' for a malformed one.
AdapterSwallows(x, model, outcome) == FALSE
AdapterThrows(x, model, outcome) ==
  \/ outcome = "error"
  \/ outcome = "malformed" /\ x # "orchB"
  \/ outcome = "noleaf" /\ ChecksLeaf(x, model)

AdapterText(x, outcome, reply) == IF outcome = "ok" THEN reply ELSE <<>>

Call(stage, model, input) ==
  [stage |-> stage, model |-> model, input |-> input, result |-> "pending",
   reply |-> <<>>]

\* the call in flight is the last of the log
Issue(log, stage, model, input) == Append(log, Call(stage, model, input))
NotAwaited(log, outcome, text) == log
Settle(log, outcome, text) ==
  [log EXCEPT ![Len(log)].result = outcome, ![Len(log)].reply = text]

CallsOf(log, stage) == SelectSeq(log, LAMBDA c : c.stage = stage)

\* ------------------------------------------------------------------ handler steps
\* from the entry of the handler to its first await or its early response
Start ==
  /\ pc = "start"
  /\ LET gate == MethodGate(h, req.method) IN
     IF gate = "preflight"
     THEN /\ resp' = Response(200, "preflight", FALSE, 0)
          /\ pc' = "done"
          /\ UNCHANGED <<doc, chunks, usedChunker>>
     ELSE IF gate = "health"
     THEN /\ resp' = Response(200, "health", FALSE, 0)
          /\ pc' = "done"
          /\ UNCHANGED <<doc, chunks, usedChunker>>
     ELSE IF gate = "notallowed"
     THEN /\ resp' = Refused(405)
          /\ pc' = "done"
          /\ UNCHANGED <<doc, chunks, usedChunker>>
     ELSE IF BodyCrashes(h, req.body)
     THEN /\ resp' = Caught(h, Thrown("TypeError"))
          /\ pc' = "done"
          /\ UNCHANGED <<doc, chunks, usedChunker>>
     ELSE IF Invalid(h, req)
     THEN /\ resp' = Refused(400)
          /\ pc' = "done"
          /\ UNCHANGED <<doc, chunks, usedChunker>>
     ELSE IF KeysRejected(h, env)
     THEN /\ resp' = Refused(500)
          /\ pc' = "done"
          /\ UNCHANGED <<doc, chunks, usedChunker>>
     ELSE /\ doc' = ResolvedDoc(h, req)
          /\ chunks' = MakeChunks(h, ResolvedDoc(h, req))
          /\ usedChunker' = NeedsChunking(h, ResolvedDoc(h, req))
          /\ pc' = "loop"
          /\ UNCHANGED resp
  /\ UNCHANGED <<h, req, env, i, processed, merged, calls>>
  /\ UNCHANGED <<cvars, jvars, rvars>>

\* the loop runs for chunk i + 1
LoopRuns == i < Len(chunks) /\ (LoopGuarded(h) => doc # <<>>)

\* const result = await callGPT(system, chunks[i]) -- the call is sent
IssueCreator ==
  /\ pc = "loop"
  /\ LoopRuns
  /\ calls' = Issue(calls, "creator", CreatorModel(h), chunks[i + 1])
  /\ pc' = "await_creator"
  /\ UNCHANGED <<h, req, env, doc, chunks, usedChunker, i, processed, merged, resp>>
  /\ UNCHANGED <<cvars, jvars, rvars>>

\* processedChunks.push(result)
PushFront(results, text) == <<text>> \o results
PushResult(results, text) == Append(results, text)

\* the call for chunk i + 1 returns or throws
CreatorReturn ==
  /\ pc = "await_creator"
  /\ \E outcome \in Outcomes(CreatorModel(h), env),
        reply \in RepliesTo(h, "creator") :
       /\ outcome # "ok" => reply = <<"w">>
       /\ calls' = Settle(calls, outcome, AdapterText(h, outcome, reply))
       /\ IF AdapterThrows(h, CreatorModel(h), outcome)
          THEN /\ resp' = Caught(h, Thrown(outcome))
               /\ pc' = "done"
               /\ UNCHANGED <<i, processed>>
          ELSE /\ processed' = PushResult(processed, AdapterText(h, outcome, reply))
               /\ i' = i + 1
               /\ pc' = IF i + 1 < Len(chunks) /\ HasDelay(h) THEN "delay" ELSE "loop"
               /\ UNCHANGED resp
  /\ UNCHANGED <<h, req, env, doc, chunks, usedChunker, merged>>
  /\ UNCHANGED <<cvars, jvars, rvars>>

\* the setTimeout between two chunks fires
DelayElapsed ==
  /\ pc = "delay"
  /\ pc' = "loop"
  /\ UNCHANGED <<h, req, env, doc, chunks, usedChunker, i, processed, merged,
                 calls, resp>>
  /\ UNCHANGED <<cvars, jvars, rvars>>

\* the 200 of the pipeline; chunks_processed (chunks_used in orchA) is
\* chunks.length
SuccessCountsCalls == Response(200, "result", FALSE, Len(calls))
Success == Response(200, "result", FALSE, Len(chunks))

Finished(final, list) == [Success EXCEPT !.final = final, !.list = list]

\* Array.isArray(finalOutput.procedures) ? finalOutput.procedures : []
ProceduresOf(v) ==
  IF v.t # "obj" THEN EmptyArr
  ELSE LET at == {k \in 1..Len(v.keys) : v.keys[k] = "p"} IN
       IF at = {} THEN EmptyArr
       ELSE IF v.vals[MaxIn(at)].t = "arr" THEN v.vals[MaxIn(at)] ELSE EmptyArr

\* after the loop: join the results and send the call of the next stage
\* (p002 answers at once unless proceed_to_arg asks for the procedure list)
AfterLoop ==
  /\ pc = "loop"
  /\ ~LoopRuns
  /\ merged' = JoinWith(processed, Separator(h))
  /\ IF h \in ThreeStage
     THEN /\ calls' = Issue(calls, "main", "gpt", JoinWith(processed, Separator(h)))
          /\ pc' = "await_main"
          /\ UNCHANGED resp
     ELSE IF h = "p002" /\ ~req.arg
     THEN /\ resp' = Finished("creator", EmptyArr)
          /\ pc' = "done"
          /\ UNCHANGED calls
     ELSE IF h = "p002"
     THEN /\ calls' = Issue(calls, "extract", "gpt", JoinWith(processed, Separator(h)))
          /\ pc' = "await_extract"
          /\ UNCHANGED resp
     ELSE /\ calls' = Issue(calls, "reviewer", ReviewerModel(h),
                            JoinWith(processed, Separator(h)))
          /\ pc' = "await_reviewer"
          /\ UNCHANGED resp
  /\ UNCHANGED <<h, req, env, doc, chunks, usedChunker, i, processed>>
  /\ UNCHANGED <<cvars, jvars, rvars>>

\* const gptDraft = await callGPT(systemMain, userMain); then the reviewer
MainReturn ==
  /\ pc = "await_main"
  /\ \E outcome \in Outcomes("gpt", env), reply \in RepliesTo(h, "main") :
       /\ outcome # "ok" => reply = <<"w">>
       /\ IF AdapterThrows(h, "gpt", outcome)
          THEN /\ calls' = Settle(calls, outcome, <<>>)
               /\ resp' = Caught(h, Thrown(outcome))
               /\ pc' = "done"
          ELSE /\ calls' = Issue(Settle(calls, outcome,
                                        AdapterText(h, outcome, reply)),
                                 "reviewer", ReviewerModel(h),
                                 AdapterText(h, outcome, reply))
               /\ pc' = "await_reviewer"
               /\ UNCHANGED resp
  /\ UNCHANGED <<h, req, env, doc, chunks, usedChunker, i, processed, merged>>
  /\ UNCHANGED <<cvars, jvars, rvars>>

\* if (!finalOutput) { const retryResp = await callClaude(...) }   (orchB)
RetriesAlways(x, text) == x = "orchB"
Retries(x, text) == x = "orchB" /\ Falsy(safeParseJson(text))

\* the reviewer's call returns or throws
ReviewerReturn ==
  /\ pc = "await_reviewer"
  /\ \E outcome \in Outcomes(ReviewerModel(h), env),
        reply \in RepliesTo(h, "reviewer") :
       /\ outcome # "ok" => reply = <<"w">>
       /\ IF AdapterThrows(h, ReviewerModel(h), outcome)
          THEN /\ calls' = Settle(calls, outcome, <<>>)
               /\ resp' = Caught(h, Thrown(outcome))
               /\ pc' = "done"
          ELSE IF Retries(h, AdapterText(h, outcome, reply))
          THEN /\ calls' = Issue(Settle(calls, outcome, AdapterText(h, outcome, reply)),
                                 "retry", ReviewerModel(h),
                                 AdapterText(h, outcome, reply))
               /\ pc' = "await_retry"
               /\ UNCHANGED resp
          ELSE /\ calls' = Settle(calls, outcome, AdapterText(h, outcome, reply))
               /\ resp' = Finished("reviewer",
                                   IF h = "orchB"
                                   THEN ProceduresOf(safeParseJson(
                                          AdapterText(h, outcome, reply)))
                                   ELSE NoList)
               /\ pc' = "done"
  /\ UNCHANGED <<h, req, env, doc, chunks, usedChunker, i, processed, merged>>
  /\ UNCHANGED <<cvars, jvars, rvars>>

\* finalOutput = safeParseJson(retryResp); if (!finalOutput) finalOutput =
\* { html_program: <pre>combinedGptDraft</pre>, procedures: [], ... }
FinalOfNoFallback(text) ==
  Finished("retry", ProceduresOf(safeParseJson(text)))
FinalOf(text) ==
  IF Falsy(safeParseJson(text)) THEN Finished("fallback", EmptyArr)
  ELSE Finished("retry", ProceduresOf(safeParseJson(text)))

\* the retry of orchB returns or throws; an unparsable answer falls back to
\* the creator draft and the request still succeeds
RetryReturn ==
  /\ pc = "await_retry"
  /\ \E outcome \in Outcomes(ReviewerModel(h), env),
        reply \in RepliesTo(h, "retry") :
       /\ outcome # "ok" => reply = <<"w">>
       /\ calls' = Settle(calls, outcome, AdapterText(h, outcome, reply))
       /\ resp' = IF AdapterThrows(h, ReviewerModel(h), outcome)
                  THEN Caught(h, Thrown(outcome))
                  ELSE FinalOf(AdapterText(h, outcome, reply))
       /\ pc' = "done"
  /\ UNCHANGED <<h, req, env, doc, chunks, usedChunker, i, processed, merged>>
  /\ UNCHANGED <<cvars, jvars, rvars>>

\* try { argProcedures = JSON.parse(procResultRaw) } catch { argProcedures = [] }
ExtractedByLine(text) ==
  Finished("creator",
           IF JSONparse(text).ok THEN JSONparse(text).val
           ELSE [t |-> "arr",
                 items |-> [k \in 1..Cardinality(Positions(text, "w")) |->
                              [t |-> "str"]]])
Extracted(text) ==
  Finished("creator",
           IF JSONparse(text).ok THEN JSONparse(text).val ELSE EmptyArr)

\* const procResultRaw = await callGPT(procSystem, procUser)   (p002); a
\* JSON.parse failure of the answer is caught and leaves the list empty
ExtractReturn ==
  /\ pc = "await_extract"
  /\ \E outcome \in Outcomes("gpt", env), reply \in RepliesTo(h, "extract") :
       /\ outcome # "ok" => reply = <<"w">>
       /\ calls' = Settle(calls, outcome, AdapterText(h, outcome, reply))
       /\ resp' = IF AdapterThrows(h, "gpt", outcome)
                  THEN Caught(h, Thrown(outcome))
                  ELSE Extracted(AdapterText(h, outcome, reply))
       /\ pc' = "done"
  /\ UNCHANGED <<h, req, env, doc, chunks, usedChunker, i, processed, merged>>
  /\ UNCHANGED <<cvars, jvars, rvars>>

\* ------------------------------------------------------------------ input resolution
\* a || b on strings
OrElse(a, b) == IF a # <<>> THEN a ELSE b

\* String.prototype.startsWith
StartsWith(s, p) == Len(s) >= Len(p) /\ SubSeq(s, 1, Len(p)) = p

\* the literal 'COMPRESSED:'
Marker == <<"C", "O", "M", "P", "R", "E", "S", "S", "E", "D", ":">>

\* document_text.replace(/^COMPRESSED:/, '')
StripMarker(s) == IF StartsWith(s, Marker) THEN SubSeq(s, Len(Marker) + 1, Len(s)) ELSE s

\* the codec: a payload is a run of code glyphs, each of which stands for a
\* longer text; a glyph outside the code alphabet makes the payload invalid
CodeGlyphs == {"k", "m"}
Inflated(c) == IF c = "k" THEN <<"A">> ELSE <<"a", ".">>

RECURSIVE InflateAll(_)
InflateAll(raw) ==
  IF raw = <<>> THEN <<>> ELSE Inflated(Head(raw)) \o InflateAll(Tail(raw))

\* LZString.decompressFromEncodedURIComponent(raw): null for the empty and
\* for an invalid payload
decompressFromEncodedURIComponent(raw) ==
  IF raw = <<>> \/ \E k \in 1..Len(raw) : raw[k] \notin CodeGlyphs
  THEN [null |-> TRUE, text |-> <<>>]
  ELSE [null |-> FALSE, text |-> InflateAll(raw)]

\* if (typeof document_text === 'string' && document_text.startsWith('COMPRESSED:'))
\*   { ...; document_text = dec || '' }
DecompressAlways(text) == decompressFromEncodedURIComponent(StripMarker(text)).text
Decompressed(text) ==
  IF StartsWith(text, Marker)
  THEN decompressFromEncodedURIComponent(StripMarker(text)).text
  ELSE text

\* extractPDF / extractWord: try { return (await parse(buffer)).text || '' }
\* catch (e) { return '' }; buf is what the library does with the buffer
extractUncaught(buf) == [threw |-> ~buf.parses, text |-> buf.text]
extractPDF(buf) ==
  [threw |-> FALSE, text |-> IF buf.parses THEN buf.text ELSE <<>>]
extractWord(buf) == extractPDF(buf)

\* (!document_text || document_text.length < 10) && body.uploaded_file?.base64
UsesFileWhenEmpty(text, file) == text = <<>> /\ file # "none"
UsesFile(text, file) ==
  (text = <<>> \/ StrLen(text) < MinDocLength) /\ file # "none"

\* the query string and the body of a request
NoQuery == [sw |-> <<>>, mt |-> <<>>, other |-> FALSE]
NoInput ==
  [dt |-> <<>>, sw |-> <<>>, file |-> "none", ftext |-> <<>>, q |-> NoQuery]

\* Object.keys(req.query).length > 0
HasKeys(q) == q.sw # <<>> \/ q.mt # <<>> \/ q.other

\* where source_wp and merged_text are taken from (orchC, p001a): "query" or
\* "body"
\*   orchC: source_wp = req.query.source_wp || ''; if (!source_wp && req.body)
\*          and the body carries source_wp, both fields come from the body
\*   p001a: if (req.query && (req.query.source_wp || Object.keys(req.query).length > 0))
\*          both fields come from the query, else from the body
TakenFrom(x, r) ==
  IF x = "orchC"
  THEN IF r.q.sw = <<>> /\ r.sw # <<>> THEN "body" ELSE "query"
  ELSE IF HasKeys(r.q) THEN "query" ELSE "body"

SourceOf(x, r) == IF TakenFrom(x, r) = "body" THEN r.sw ELSE r.q.sw
MergedOf(x, r) == IF TakenFrom(x, r) = "body" THEN r.dt ELSE r.q.mt

\* the validation that ends the resolution: 400, or 200 for "goes on"
Validated(x, text, src) ==
  IF Invalid(x, [doc |-> text, crit |-> src]) THEN 400 ELSE 200

\* ------------------------------------------------------------------ Spec
ChunkIdle ==
  /\ ctext = <<>>
  /\ cmax = 1
  /\ cvariant = "trim"
  /\ cresult = <<>>
  /\ cpc = "off"

JsonIdle ==
  /\ jin = [kind |-> "text", pre |-> <<>>, dirty |-> <<>>, clean |-> <<>>,
            post |-> <<>>]
  /\ jresult = JsNull
  /\ jpc = "off"

ResolveIdle ==
  /\ rh = "orchB"
  /\ rin = NoInput
  /\ rtext = <<>>
  /\ rsrc = <<>>
  /\ rfile = "unused"
  /\ rpc = "off"
  /\ rstatus = 0

PipeIdle ==
  /\ h = "sop"
  /\ req = [method |-> "POST", body |-> "object", doc |-> <<>>, crit |-> <<>>,
            arg |-> FALSE]
  /\ env = [openai |-> "ok", anthropic |-> "ok"]
  /\ pc = "off"
  /\ doc = <<>>
  /\ chunks = <<>>
  /\ usedChunker = FALSE
  /\ i = 0
  /\ processed = <<>>
  /\ merged = <<>>
  /\ calls = <<>>
  /\ resp = NoResponse

\* a request arrives at a handler; blank criteria and unusable keys come with
\* the documents of fewer than MaxSentences sentences
Init ==
  /\ ChunkIdle
  /\ JsonIdle
  /\ ResolveIdle
  /\ h \in Handlers
  /\ req \in [method : Methods, body : BodyShapes, doc : Docs, crit : Criteria,
              arg : BOOLEAN]
  /\ req.arg => h = "p002"
  /\ req.body # "object" => req.doc = <<>> /\ req.crit = <<>> /\ ~req.arg
  /\ env \in Envs
  /\ (req.crit = <<" ">> \/ env.openai # "ok" \/ env.anthropic # "ok")
       => req.doc \in DocsOf(MaxSentences - 1)
  /\ pc = "start"
  /\ doc = <<>>
  /\ chunks = <<>>
  /\ usedChunker = FALSE
  /\ i = 0
  /\ processed = <<>>
  /\ merged = <<>>
  /\ calls = <<>>
  /\ resp = NoResponse

Next ==
  \/ Start
  \/ IssueCreator
  \/ CreatorReturn
  \/ DelayElapsed
  \/ AfterLoop
  \/ MainReturn
  \/ ReviewerReturn
  \/ RetryReturn
  \/ ExtractReturn

Spec == Init /\ [][Next]_vars

\* ------------------------------------------------------------------ SpecChunk
\* chunkText applied to every text of at most MaxLen glyphs.
ChunkAlphabet == {"a", ".", " ", "\n"}

ChunkTexts == UNION {[1..n -> ChunkAlphabet] : n \in 0..MaxLen}

InitChunk ==
  /\ PipeIdle
  /\ JsonIdle
  /\ ResolveIdle
  /\ ctext \in ChunkTexts
  /\ cmax \in 1..MaxMax
  /\ cvariant \in Variants
  /\ cresult = <<>>
  /\ cpc = "call"

ApplyChunkText ==
  /\ cpc = "call"
  /\ cresult' = chunkText(cvariant, ctext, cmax)
  /\ cpc' = "returned"
  /\ UNCHANGED <<ctext, cmax, cvariant>>
  /\ UNCHANGED <<jvars, rvars, pvars>>

NextChunk == ApplyChunkText

SpecChunk == InitChunk /\ [][NextChunk]_vars

\* ------------------------------------------------------------------ SpecJson
\* safeParseJson applied to every text of at most MaxJsonLen glyphs, and to
\* arrays of at most MaxItems elements, with or without trailing commas,
\* alone or inside prose.
JsonAlphabet == {"{", "}", "[", "]", ",", ":", "s", "1", "w"}

JsonTexts == UNION {[1..n -> JsonAlphabet] : n \in 0..MaxJsonLen}

\* the elements of the arrays: a string, a number, an object, an object with a
\* trailing comma
ElementKinds == {"s", "1", "o", "oc"}

RenderElement(e, commas) ==
  IF e = "s" THEN <<"s">>
  ELSE IF e = "1" THEN <<"1">>
  ELSE IF e = "oc" /\ commas THEN <<"{", "s", ":", "1", ",", " ", "}">>
  ELSE <<"{", "s", ":", "1", "}">>

\* the text of the array of these elements; commas: written with its trailing
\* commas (those of "oc" elements, and the one before "]" when last is TRUE)
RenderArray(es, last, commas) ==
  <<"[">> \o JoinWith([k \in 1..Len(es) |-> RenderElement(es[k], commas)],
                     <<",">>)
         \o (IF last /\ commas THEN <<",">> ELSE <<>>) \o <<"]">>

HasTrailingComma(es, last) == last \/ \E k \in 1..Len(es) : es[k] = "oc"

ArrayInputs ==
  {[kind |-> IF HasTrailingComma(es, last) THEN "commas" ELSE "array",
    pre |-> pre, dirty |-> RenderArray(es, last, TRUE),
    clean |-> RenderArray(es, last, FALSE), post |-> post] :
     es \in UNION {[1..n -> ElementKinds] : n \in 1..MaxItems},
     last \in BOOLEAN,
     pre \in {<<>>, <<"w", " ">>},
     post \in {<<>>, <<" ", "w">>}}

TextInputs ==
  {[kind |-> "text", pre |-> <<>>, dirty |-> t, clean |-> t, post |-> <<>>] :
     t \in JsonTexts}

InitJson ==
  /\ PipeIdle
  /\ ChunkIdle
  /\ ResolveIdle
  /\ jin \in ArrayInputs \cup TextInputs
  /\ jresult = JsNull
  /\ jpc = "call"

ApplySafeParseJson ==
  /\ jpc = "call"
  /\ jresult' = safeParseJson(jin.pre \o jin.dirty \o jin.post)
  /\ jpc' = "returned"
  /\ UNCHANGED jin
  /\ UNCHANGED <<cvars, rvars, pvars>>

NextJson == ApplySafeParseJson

SpecJson == InitJson /\ [][NextJson]_vars

\* ------------------------------------------------------------------ SpecResolve
\* document_text / source_wp of the body: none, shorter than ten characters,
\* long, compressed (valid, valid but short, invalid, empty payload), and the
\* marker after a blank
BodyTexts ==
  {<<>>, <<"a", ".">>, <<"A", ".">>, Marker \o <<"k", "m">>, Marker \o <<"m">>,
   Marker \o <<"%">>, Marker, <<" ">> \o Marker \o <<"k">>}

\* what the uploaded file holds: nothing, a text, a compressed text
FileTexts == {<<>>, <<"A", "!">>, Marker \o <<"k", "m">>}
FileTypes == {"pdf", "docx"}

UploadInputs ==
  {[dt |-> t, sw |-> w, file |-> f, ftext |-> ft, q |-> NoQuery] :
     t \in BodyTexts, w \in {<<>>, <<"A", "A", ".">>},
     f \in FileTypes \cup {"none"}, ft \in FileTexts}

Queries ==
  [sw : {<<>>, <<" ">>, <<"b">>}, mt : {<<>>, <<"b", ".">>}, other : BOOLEAN]

QueryInputs ==
  {[dt |-> t, sw |-> w, file |-> "none", ftext |-> <<>>, q |-> q] :
     t \in {<<>>, <<"a", ".">>}, w \in {<<>>, <<" ">>, <<"a">>}, q \in Queries}

InitResolve ==
  /\ ChunkIdle
  /\ JsonIdle
  /\ PipeIdle
  /\ rh \in {"orchB", "orchC", "p001a"}
  /\ rin \in UploadInputs \cup QueryInputs
  /\ rh = "orchB" <=> rin \in UploadInputs
  /\ rin.file = "none" => rin.ftext = <<>>
  /\ rtext = <<>>
  /\ rsrc = <<>>
  /\ rfile = "unused"
  /\ rpc = "body"
  /\ rstatus = 0

\* orchB, from the read of the body to the await of the extractor or, without
\* a file to extract, to the end of the validation
ReadBody ==
  /\ rpc = "body"
  /\ rh = "orchB"
  /\ LET text == OrElse(rin.dt, rin.sw) IN
     IF UsesFile(text, rin.file)
     THEN /\ rtext' = text
          /\ rpc' = "extract"
          /\ UNCHANGED rstatus
     ELSE /\ rtext' = Decompressed(text)
          /\ rstatus' = Validated(rh, Decompressed(text), <<>>)
          /\ rpc' = "done"
  /\ UNCHANGED <<rh, rin, rsrc, rfile>>
  /\ UNCHANGED <<cvars, jvars, pvars>>

\* document_text = await extractPDF(buf) / extractWord(buf), then the
\* decompression and the validation
ExtractReturns ==
  /\ rpc = "extract"
  /\ \E parses \in BOOLEAN :
       LET buf == [parses |-> parses, text |-> rin.ftext]
           got == IF rin.file = "pdf" THEN extractPDF(buf) ELSE extractWord(buf)
       IN  /\ rfile' = IF ~parses THEN "failed"
                       ELSE IF rin.ftext = <<>> THEN "empty" ELSE "text"
           /\ IF got.threw
              THEN /\ rstatus' = 500
                   /\ UNCHANGED rtext
              ELSE /\ rtext' = Decompressed(got.text)
                   /\ rstatus' = Validated(rh, Decompressed(got.text), <<>>)
           /\ rpc' = "done"
  /\ UNCHANGED <<rh, rin, rsrc>>
  /\ UNCHANGED <<cvars, jvars, pvars>>

\* orchC and p001a, from the read of the query and the body to the end of the
\* validation of source_wp
ReadQuery ==
  /\ rpc = "body"
  /\ rh \in {"orchC", "p001a"}
  /\ rsrc' = SourceOf(rh, rin)
  /\ rtext' = MergedOf(rh, rin)
  /\ rstatus' = Validated(rh, MergedOf(rh, rin), SourceOf(rh, rin))
  /\ rpc' = "done"
  /\ UNCHANGED <<rh, rin, rfile>>
  /\ UNCHANGED <<cvars, jvars, pvars>>

NextResolve ==
  \/ ReadBody
  \/ ExtractReturns
  \/ ReadQuery

SpecResolve == InitResolve /\ [][NextResolve]_vars

\* ------------------------------------------------------------------ chunker claims
NonEmptyStr(s) == s # <<>>

\* the sentences of a text: the non-empty pieces of the trimmed text
SentencesOf(t) == SelectSeq(SplitSentences(Trim(t)), NonEmptyStr)

RECURSIVE FlattenSentences(_)
FlattenSentences(cs) ==
  IF cs = <<>> THEN <<>>
  ELSE SentencesOf(Head(cs)) \o FlattenSentences(Tail(cs))

RECURSIVE ConcatAll(_)
ConcatAll(cs) ==
  IF cs = <<>> THEN <<>> ELSE Head(cs) \o ConcatAll(Tail(cs))

NotWs(c) == ~IsWs(c)
StripWs(t) == SelectSeq(t, NotWs)

\* the text with every whitespace run that follows a sentence terminator
\* replaced by one space
RECURSIVE NormalizeFrom(_, _)
NormalizeFrom(t, k) ==
  IF k > Len(t) THEN <<>>
  ELSE IF SepStartsAt(t, k)
       THEN <<" ">> \o NormalizeFrom(t, WsRunEnd(t, k) + 1)
       ELSE <<t[k]>> \o NormalizeFrom(t, k + 1)

Normalize(t) == NormalizeFrom(t, 1)

\* the chunk that holds the p-th sentence of the chunks' flattened sentences
RECURSIVE SentenceOwner(_, _, _)
SentenceOwner(cs, j, p) ==
  IF j > Len(cs) THEN 0
  ELSE IF p <= Len(SentencesOf(cs[j])) THEN j
       ELSE SentenceOwner(cs, j + 1, p - Len(SentencesOf(cs[j])))

Returned == cpc = "returned"

\* C1: every returned chunk has length at most max, unless the chunk is exactly
\* one sentence that is itself longer than max -- in every chunkText variant.
C1_ChunkWithinMax ==
  Returned =>
    \A j \in 1..Len(cresult) :
      \/ StrLen(cresult[j]) <= cmax
      \/ /\ Len(SentencesOf(cresult[j])) = 1
         /\ StrLen(SentencesOf(cresult[j])[1]) > cmax

\* C2: the chunks, in order, hold the sentences of the input, each exactly
\* once and in input order; apart from whitespace the chunks concatenate to
\* the input.
C2_ChunksReproduceText ==
  Returned =>
    /\ FlattenSentences(cresult) = SentencesOf(ctext)
    /\ StripWs(ConcatAll(cresult)) = StripWs(ctext)

C2_Witness ==
  /\ Returned
  /\ Len(cresult) >= 2
  /\ \E j \in 1..Len(cresult) : Len(SentencesOf(cresult[j])) >= 2

C4_ChunksNonEmptyTrimmed ==
  Returned =>
    \A j \in 1..Len(cresult) :
      cresult[j] # <<>> /\ Trim(cresult[j]) = cresult[j]

\* C5: a sentence longer than max is a chunk of its own, whole: the chunk that
\* holds it holds no other sentence and equals the sentence (the raw variant
\* adds the accumulator's trailing space).
C5_LongSentenceOwnChunk ==
  Returned =>
    \A p \in 1..Len(SentencesOf(ctext)) :
      StrLen(SentencesOf(ctext)[p]) > cmax =>
        LET j == SentenceOwner(cresult, 1, p) IN
          /\ j \in 1..Len(cresult)
          /\ Trim(cresult[j]) = SentencesOf(ctext)[p]
          /\ cvariant # "raw" => cresult[j] = SentencesOf(ctext)[p]

C5_Witness ==
  /\ Returned
  /\ cvariant = "trim"
  /\ Len(SentencesOf(ctext)) >= 2
  /\ StrLen(SentencesOf(ctext)[1]) <= cmax
  /\ StrLen(SentencesOf(ctext)[2]) > cmax
  /\ cresult[SentenceOwner(cresult, 1, 2)] = SentencesOf(ctext)[2]

\* C6: the empty string and a text of whitespace only give the empty list, in
\* every chunkText variant.
C6_BlankGivesEmptyList ==
  (Returned /\ Trim(ctext) = <<>>) => cresult = <<>>

\* ------------------------------------------------------------------ pipeline claims
\* the handler is past its validation: the document is resolved and chunked
Resolved ==
  \/ pc \in {"loop", "await_creator", "delay", "await_main", "await_reviewer",
             "await_retry", "await_extract"}
  \/ pc = "done" /\ (calls # <<>> \/ resp.kind = "result")

\* the request ended with the 200 of the pipeline
Succeeded == pc = "done" /\ resp.status = 200 /\ resp.kind = "result"

\* the creator stage is over: the results are merged
PastLoop ==
  \/ pc \in {"await_main", "await_reviewer", "await_retry", "await_extract"}
  \/ Succeeded

CountOf(stage) == Len(CallsOf(calls, stage))
CallsTo(model) == Len(SelectSeq(calls, LAMBDA c : c.model = model))

C7_StatedThreshold(x) == IF x = "orchB" THEN 25000 ELSE 10000
C8_CreatorCallsFollowChunks ==
  LET cc == CallsOf(calls, "creator") IN
    /\ Len(cc) <= Len(chunks)
    /\ \A k \in 1..Len(cc) : cc[k].input = chunks[k]
    /\ (PastLoop /\ doc # <<>>) =>
         /\ Len(cc) = Len(chunks)
         /\ processed = [k \in 1..Len(cc) |-> cc[k].reply]
         /\ merged = JoinWith([k \in 1..Len(cc) |-> cc[k].reply], Separator(h))

C8_Witness ==
  /\ Succeeded
  /\ usedChunker
  /\ Len(chunks) >= 2
  /\ chunks[1] # chunks[2]
  /\ CallsOf(calls, "creator")[1].reply # CallsOf(calls, "creator")[2].reply
  /\ merged = CallsOf(calls, "creator")[1].reply \o Separator(h)
                \o CallsOf(calls, "creator")[2].reply

\* the calls of the reviewer: its first call and the retry of orchB
ReviewerCalls == CountOf("reviewer") + CountOf("retry")

\* every call after the creator stage was sent when all creator calls had
\* returned: in the log no creator call follows it, none is pending
AfterAllCreatorCalls ==
  \A k \in 1..Len(calls) :
    calls[k].stage \in {"reviewer", "retry", "extract"} =>
      \A j \in 1..Len(calls) :
        calls[j].stage = "creator" => j < k /\ calls[j].result # "pending"

\* C9 as stated: every request that ends with the pipeline's 200 has invoked
\* the reviewer exactly once, after every creator call had completed (the
\* extraction call of part_002 counted as its reviewer call).
C9_ReviewerExactlyOnce ==
  /\ AfterAllCreatorCalls
  /\ Succeeded => ReviewerCalls + CountOf("extract") = 1

\* C9 amended: every reviewer call is made after every creator call has
\* completed; a request that ends with the pipeline's 200 has invoked the
\* reviewer exactly once in the two-stage and three-stage handlers; once, and
\* a second time exactly when the first answer did not parse to a truthy
\* value, in the handler of orchestrator.js:325; never in the handler of part_002, which instead makes
\* one extraction call exactly when proceed_to_arg is set.
C9_ReviewerOnceOrRetried ==
  /\ AfterAllCreatorCalls
  /\ Succeeded =>
       /\ h \in ThreeStage \cup TwoStage => ReviewerCalls = 1 /\ CountOf("extract") = 0
       /\ h = "orchB" =>
            /\ CountOf("reviewer") = 1
            /\ CountOf("extract") = 0
            /\ CountOf("retry") =
                 IF Falsy(safeParseJson(CallsOf(calls, "reviewer")[1].reply))
                 THEN 1 ELSE 0
       /\ h = "p002" =>
            /\ ReviewerCalls = 0
            /\ CountOf("extract") = IF req.arg THEN 1 ELSE 0

C9_Witness ==
  /\ Succeeded
  /\ h = "orchB"
  /\ Len(CallsOf(calls, "creator")) >= 1
  /\ CountOf("reviewer") = 1
  /\ CountOf("retry") = 1

\* the request of scenario 1: a POST with a document below 10,000 characters
\* and criteria; every call made has succeeded
SmallRequest ==
  /\ req.method = "POST"
  /\ StrLen(req.doc) < 10000
  /\ Trim(req.doc) # <<>>
  /\ Trim(req.crit) # <<>>
  /\ env.openai = "ok" /\ env.anthropic = "ok"

AllCallsOk == \A k \in 1..Len(calls) : calls[k].result = "ok"

C11_CountIsChunksAndCalls ==
  Succeeded =>
    /\ resp.count = Len(chunks)
    /\ resp.count = CountOf("creator")

\* both the document text and the user criteria are missing or empty
BothMissing == req.method = "POST" /\ req.doc = <<>> /\ req.crit = <<>>

\* C12: a POST request in which both the document text and the user criteria
\* are missing or empty is answered with HTTP 400 and an error field, and no
\* call to an LLM service is made before or after that response.
C12_BothMissingIs400 ==
  BothMissing =>
    /\ calls = <<>>
    /\ pc = "done" => resp.status = 400 /\ resp.error

\* call k of the log is a creator call that failed: a network or HTTP error,
\* or an answer on which the adapter throws
CreatorFailed(k) ==
  /\ calls[k].stage = "creator"
  /\ \/ calls[k].result = "error"
     \/ calls[k].result = "malformed" /\ h # "orchB"
     \/ calls[k].result = "noleaf" /\ h \in TwoStage \cup {"p001a"}

\* C13: if a creator call of a request fails, the request is answered with
\* HTTP 500 and an error field, no further creator call is made for the
\* remaining chunks, and the reviewer is never invoked.
C13_CreatorFailureAborts ==
  \A k \in 1..Len(calls) :
    CreatorFailed(k) =>
      /\ k = Len(calls)
      /\ pc = "done"
      /\ resp.status = 500
      /\ resp.error
      /\ ReviewerCalls = 0
      /\ CountOf("main") = 0
      /\ CountOf("extract") = 0

C13_Witness ==
  /\ Len(chunks) >= 3
  /\ Len(calls) = 2
  /\ calls[1].stage = "creator" /\ calls[1].result = "ok"
  /\ CreatorFailed(2)
  /\ pc = "done"
  /\ resp.status = 500

\* the answer of the call of that stage was received and gives no value
Unparsed(stage) ==
  /\ CountOf(stage) = 1
  /\ CallsOf(calls, stage)[1].result # "pending"
  /\ CallsOf(calls, stage)[1].result # "error"
  /\ Falsy(safeParseJson(CallsOf(calls, stage)[1].reply))

ReviewerCallFailed ==
  \E k \in 1..Len(calls) :
    calls[k].stage \in {"reviewer", "retry"} /\ calls[k].result = "error"

\* C14 as stated: a request in which the reviewer call fails, or in which the
\* reviewer's output cannot be parsed (in orchB, the one handler that parses
\* it: neither the first answer nor the retried one), never returns HTTP 200
\* and never returns the creator's output as its result.
C14_ReviewerFailureNever200 ==
  (ReviewerCallFailed \/ (h = "orchB" /\ Unparsed("reviewer") /\ Unparsed("retry"))) =>
    /\ ~Succeeded
    /\ resp.final # "fallback"

\* C14 amended: a request in which any LLM call fails (network error or error
\* status) is answered with an error response, never with HTTP 200 and never
\* with the creator's output; an answer that cannot be parsed does not abort
\* the request: orchB, the one handler that parses the reviewer's answer, asks
\* again once and, when the second answer gives no value either, returns HTTP
\* 200 with a final output built from the creator's draft.
C14_CallFailureAbortsParseFailureFallsBack ==
  /\ \A k \in 1..Len(calls) :
       calls[k].result = "error" =>
         /\ k = Len(calls)
         /\ pc = "done"
         /\ resp.status = 500
         /\ resp.kind = "error"
         /\ resp.final = "none"
  /\ (Succeeded /\ h = "orchB") =>
       /\ resp.final = "reviewer" <=> ~Unparsed("reviewer")
       /\ resp.final = "retry" <=> Unparsed("reviewer") /\ ~Unparsed("retry")
       /\ resp.final = "fallback" <=> Unparsed("reviewer") /\ Unparsed("retry")
  /\ (Succeeded /\ h # "orchB") =>
       resp.final = IF h = "p002" THEN "creator" ELSE "reviewer"

C14_Witness ==
  /\ Succeeded
  /\ h = "orchB"
  /\ Unparsed("reviewer")
  /\ Unparsed("retry")
  /\ resp.final = "fallback"

\* the text has no bracketed JSON structure and is not a JSON literal either
PlainText(text) ==
  /\ text # <<>>
  /\ Positions(text, "{") = {} /\ Positions(text, "[") = {}
  /\ ~JSONparse(text).ok

\* the number of non-empty lines of a text: the glyphs that are the first
\* non-blank glyph of their line
NonEmptyLines(text) ==
  Cardinality({k \in 1..Len(text) :
    /\ ~IsWs(text[k])
    /\ \A j \in 1..(k - 1) :
         (\A m \in j..(k - 1) : text[m] # "\n") => IsWs(text[j])})

\* a request that asked for a structured list, finished, and whose answers to
\* the structured call (the extraction of p002; the reviewer of orchB and its
\* retry) were all plain text; StructuredAnswer is the last of them
StructuredAnswer ==
  IF h = "p002" THEN CallsOf(calls, "extract")[1].reply
  ELSE CallsOf(calls, "retry")[1].reply

AnsweredInPlainText ==
  /\ pc = "done"
  /\ AllCallsOk
  /\ \/ /\ h = "p002" /\ req.arg /\ CountOf("extract") = 1
        /\ PlainText(CallsOf(calls, "extract")[1].reply)
     \/ /\ h = "orchB" /\ CountOf("reviewer") = 1 /\ CountOf("retry") = 1
        /\ PlainText(CallsOf(calls, "reviewer")[1].reply)
        /\ PlainText(CallsOf(calls, "retry")[1].reply)

JsonReturned == jpc = "returned"

\* C16: given a string that contains a syntactically valid JSON array embedded
\* in surrounding prose, safeParseJson returns that array, whether its
\* elements are scalars or objects.
C16_EmbeddedArrayReturned ==
  (JsonReturned /\ jin.kind = "array" /\ (jin.pre # <<>> \/ jin.post # <<>>)) =>
    /\ JSONparse(jin.dirty).ok
    /\ jresult = JSONparse(jin.dirty).val

\* C17: given a JSON array that is valid except for trailing commas before a
\* closing bracket or brace, safeParseJson returns the array obtained after
\* removing those commas.
C17_TrailingCommasRepaired ==
  (JsonReturned /\ jin.kind = "commas" /\ jin.pre = <<>> /\ jin.post = <<>>) =>
    /\ JSONparse(jin.clean).ok
    /\ jresult = JSONparse(jin.clean).val

\* ------------------------------------------------------------------ configuration and errors
\* the request went past the method gate and the input validation
PassedValidation ==
  /\ pc # "start"
  /\ MethodGate(h, req.method) = "go"
  /\ ~BodyCrashes(h, req.body)
  /\ ~Invalid(h, req)

BadKey == env.openai # "ok" \/ env.anthropic # "ok"

\* C18: in every handler, a request that passes input validation while an API
\* key is absent or has the wrong prefix is answered with HTTP 500, and no LLM
\* call is made with the missing or malformed key.
C18_BadKeyIsConfigurationError ==
  (PassedValidation /\ BadKey) =>
    /\ \A k \in 1..Len(calls) : KeyOf(calls[k].model, env) = "ok"
    /\ pc = "done" => resp.status = 500 /\ resp.error

\* a call was answered with a success status and a malformed envelope: the
\* choices / content array is missing, or its first entry lacks the text
GotMalformedEnvelope ==
  \E k \in 1..Len(calls) : calls[k].result \in {"malformed", "noleaf"}

\* C19: when a provider returns a success status with a malformed envelope,
\* the adapter call fails and the request is answered with HTTP 500; the
\* pipeline never continues with an empty text in place of the answer.
C19_MalformedEnvelopeFails ==
  \A k \in 1..Len(calls) :
    calls[k].result \in {"malformed", "noleaf"} =>
      /\ k = Len(calls)
      /\ pc = "done"
      /\ resp.status = 500
      /\ resp.error

\* the request failed: the handler answered with a status other than 200
Failed == resp.status \notin {0, 200}

\* a provider call of the request has failed or came back malformed
CallWentWrong ==
  \E k \in 1..Len(calls) : calls[k].result \in {"error", "malformed", "noleaf"}

\* C20: every error response has a JSON body with a top-level error field: a
\* response with a status other than 200 carries error, a finished request
\* has sent its response, and a path on which a call went wrong does not stop
\* before the response is sent.
C20_ErrorsAreSurfaced ==
  /\ Failed => resp.kind = "error" /\ resp.error
  /\ pc = "done" <=> resp # NoResponse
  /\ CallWentWrong /\ pc # "done" => ENABLED Next

\* a provider call of sop-reviewer.js is rejected and the catch-all answers
\* 500 with the message of the rejection
C20_Witness ==
  /\ h = "sop"
  /\ pc = "done"
  /\ resp.status = 500
  /\ calls # <<>>
  /\ calls[Len(calls)].result = "error"
  /\ resp.error

\* ------------------------------------------------------------------ greedy chunks
\* the first sentence of a chunk
FirstSentence(chunk) == Head(SplitSentences(chunk))

\* C23: chunkText is greedy: a chunk is closed only when appending the next
\* sentence would exceed the maximum, so for every pair of consecutive chunks
\* the earlier chunk followed by a space and the first sentence of the later
\* chunk is longer than the maximum.
C23_ChunkPlusNextSentenceOverflows ==
  cpc = "returned" =>
    \A j \in 1..(Len(cresult) - 1) :
      StrLen(cresult[j] \o <<" ">> \o FirstSentence(cresult[j + 1])) > cmax

\* C23 for the texts that neither begin nor end with whitespace
C23_GreedyOnTrimmedText ==
  cpc = "returned" /\ Trim(ctext) = ctext =>
    \A j \in 1..(Len(cresult) - 1) :
      StrLen(cresult[j] \o <<" ">> \o FirstSentence(cresult[j + 1])) > cmax

\* two sentences that fit the maximum together but not with the space that
\* joins them
C23_Witness ==
  /\ cpc = "returned"
  /\ cvariant = "trim"
  /\ Trim(ctext) = ctext
  /\ Len(cresult) = 2
  /\ StrLen(cresult[1]) + StrLen(FirstSentence(cresult[2])) = cmax
  /\ Len(SplitSentences(cresult[1])) = 2

\* ------------------------------------------------------------------ sequencing
\* the calls that were sent and have not returned
InFlight == {k \in 1..Len(calls) : calls[k].result = "pending"}

\* C22: within one request the external calls form a single sequence: at
\* most one call is in flight at any time, and the call for chunk k+1 is
\* issued only after the call for chunk k has returned.
C22_OneCallInFlight ==
  /\ Cardinality(InFlight) <= 1
  /\ \A k \in InFlight : k = Len(calls)
  /\ \A k \in 1..Len(calls) :
       calls[k].stage = "creator" /\ k > 1 => calls[k - 1].result # "pending"

\* the call for the second chunk is in flight, the first has returned
C22_Witness ==
  /\ Len(calls) = 2
  /\ calls[1].stage = "creator" /\ calls[1].result = "ok"
  /\ calls[2].stage = "creator" /\ calls[2].result = "pending"
  /\ calls[2].input = chunks[2]

\* C24: between every two consecutive per-chunk creator calls a fixed delay
\* elapses, in every handler variant, and no delay follows the last chunk's
\* call: when a creator call has returned, the handler waits exactly if
\* chunks remain, and nothing but the end of the delay leads on to the next
\* call.
C24_DelayBetweenCreatorCalls ==
  [][/\ pc = "await_creator" /\ pc' # "done" =>
          (pc' = "delay" <=> i' < Len(chunks))
     /\ pc = "delay" => pc' = "loop" /\ calls' = calls]_vars

\* the stages whose call is made once per request
SingleStages == {"main", "reviewer", "retry", "extract"}

NoCallFailed == \A k \in 1..Len(calls) : calls[k].result \in {"ok", "pending"}

\* C28: a request that passes validation and whose calls all succeed makes at
\* least one per-chunk creator call before the reviewer stage runs; the
\* reviewer is never invoked on a merged document built from zero creator
\* results.
C28_ReviewerAfterSomeCreatorCall ==
  PassedValidation /\ NoCallFailed /\ CountOf("reviewer") >= 1 =>
    /\ CountOf("creator") >= 1
    /\ processed # <<>>

\* C29: the procedures_for_arg field of every successful response is a list:
\* the empty list when structured extraction was not requested or its output
\* could not be used, and otherwise the list parsed from the model output; it
\* is never a non-list JSON value.
C29_ProceduresForArgIsAList ==
  Succeeded /\ resp.list # NoList =>
    /\ resp.list.t = "arr"
    /\ h = "p002" /\ ~req.arg => resp.list = EmptyArr

\* ------------------------------------------------------------------ input claims
\* the text the handler starts from, before the decompression (orchB)
RawText ==
  IF rfile = "unused" THEN OrElse(rin.dt, rin.sw)
  ELSE IF rfile = "text" THEN rin.ftext
  ELSE <<>>

Resolving == rh = "orchB" /\ rpc = "done"
OnlyFile == rin.dt = <<>> /\ rin.sw = <<>> /\ rin.file # "none"

\* C21: a failure to extract text from an uploaded PDF or Word file does not
\* abort the request: the extractor yields empty text instead of raising, and
\* a request whose only document source is a file that fails extraction is
\* not ended with an error response because of that failure.
C21_FailedExtractionIsNoError ==
  Resolving /\ OnlyFile /\ rfile = "failed" =>
    /\ rtext = <<>>
    /\ rstatus = 200

\* C21, as the code has it: a failed extraction yields the empty text and
\* never the catch-all's 500; the request is answered 400 like a request
\* without a document.
C21_FailedExtractionIsEmptyDocument ==
  Resolving /\ rfile = "failed" =>
    /\ rtext = <<>>
    /\ rstatus = 400

C21_Witness ==
  /\ Resolving
  /\ OnlyFile
  /\ rfile = "failed"
  /\ rin.ftext # <<>>
  /\ rstatus = 400

\* the part of a text after the marker
AfterMarker(text) == SubSeq(text, Len(Marker) + 1, Len(text))

\* C26: decompression is applied to the document text only when it starts
\* with the literal marker prefix COMPRESSED:; text without the marker reaches
\* the pipeline unchanged, and text with the marker is replaced by the
\* decompression of the part after the marker (stated for the handler that
\* has the codec, orchestrator.js:325).
C26_DecompressedOnlyWithMarker ==
  Resolving =>
    IF Len(RawText) >= Len(Marker) /\ SubSeq(RawText, 1, Len(Marker)) = Marker
    THEN rtext = decompressFromEncodedURIComponent(AfterMarker(RawText)).text
    ELSE rtext = RawText

\* a compressed document_text reaches the pipeline as the text it stands for
C26_Witness ==
  /\ Resolving
  /\ rfile = "unused"
  /\ rin.dt = Marker \o <<"k", "m">>
  /\ rtext = <<"A", "a", ".">>
  /\ rstatus = 200

\* document_text || source_wp of the body
BodyText == IF rin.dt # <<>> THEN rin.dt ELSE rin.sw

\* C27: text is extracted from an uploaded file only when the request
\* supplies no raw document text: whenever the body carries a non-empty
\* document_text (or source_wp), that text is the one processed and the
\* uploaded file is ignored.
C27_FileIgnoredWhenTextGiven ==
  Resolving /\ BodyText # <<>> =>
    /\ rfile = "unused"
    /\ RawText = BodyText

\* C27, as the code has it: the file is ignored when the body's text has at
\* least ten characters; a shorter text gives way to the text of the file.
C27_FileIgnoredWhenTextLongEnough ==
  Resolving =>
    /\ StrLen(BodyText) >= MinDocLength => rfile = "unused" /\ RawText = BodyText
    /\ StrLen(BodyText) < MinDocLength /\ rin.file # "none" =>
         /\ rfile # "unused"
         /\ rfile = "text" => RawText = rin.ftext
    /\ rin.file = "none" => rfile = "unused"

\* a document_text of two characters is replaced by the text of the PDF
C27_Witness ==
  /\ Resolving
  /\ rin.dt = <<"a", ".">>
  /\ rin.file = "pdf"
  /\ rfile = "text"
  /\ rtext = <<"A", "!">>
  /\ rstatus = 200

\* C30: in the handlers that accept query parameters as well as a body, a
\* POST request whose JSON body carries a non-empty (here: non-blank)
\* source_wp is never rejected with HTTP 400 for a missing source_wp, whatever
\* query parameters are present on the URL.
C30_BodySourceNeverMissing ==
  rh \in {"orchC", "p001a"} /\ rpc = "done" /\ Trim(rin.sw) # <<>> =>
    rstatus # 400

====
